---- MODULE Spec2Model ----
(***************************************************************************)
(* A model of the editor's karma test fixture                              *)
(* (assets/src/edit-story/karma/fixture.js): the component stubs with      *)
(* their hook queue and refresh counter, the createElement interception,   *)
(* and actPromise; of the dashboard settings reducer as its unit test      *)
(* (assets/src/dashboard/app/reducer/test/settings.js) exercises it; and   *)
(* of the step list of the e2e workflow job; and of the handlers of the    *)
(* panel title (components/panels/panel/shared/title.js).                  *)
(***************************************************************************)
EXTENDS Integers, Sequences, FiniteSets, TLC

(* ---------------------------------------------------------------- bounds *)
MaxInst == 2
MaxHooks == 2
MaxPass == 3
MaxStubs == 4
MaxWork == 2
MaxNow == 3
MaxThreshold == 2
MaxDelta == 3

(* ------------------------------------------------------------ value sets *)
Insts == 1..MaxInst
Hooks == 1..MaxHooks
PropsSet == {"propsA", "propsB"}
Impls == {"fake1", "fake2"}
NULL == "null"
UNDEFINED == 0
NoValue == <<0, "none">>

VARIABLES
  implementation,  \* ComponentStub._implementation: NULL or a fake
  props,           \* ComponentStub._props: NULL or the last rendered props
  setRefresher,    \* closure variable: UNDEFINED or the instance whose setter it is
  pendingHooks,    \* closure variable: the queue of enqueued hook closures
  inst,            \* the Wrapper instances (fibers): state, memos, last output
  batching,        \* inside a synchronous batchedUpdates scope (outer act / event)
  nextHook,        \* the next hook procedure to be enqueued
  runs,            \* history: how often each hook procedure has been called
  promise,         \* the promise created by _pushPendingHook for each hook
  returned,        \* the promise renderHook returned (fixture.act around it)
  resolved,        \* history: the hooks in the order their promises resolved
  pass,            \* history: number of Wrapper renders so far
  enqPass,         \* history: value of pass when the hook was enqueued
  firstExec,       \* history: pass, instance, refresher, result of the first call
  componentStubs,  \* Fixture._componentStubs: component -> its stubs, in order
  nStubs,          \* number of ComponentStub objects constructed so far
  container,       \* Fixture._container: NULL until render()
  element,         \* the outcome of the last React.createElement call
  depth,           \* history: substitutions made for the current instantiation
  op,              \* history: the operation that created element
  callback,        \* the callback handed to actPromise: kind and outcome
  callbackResult,  \* actPromise's local: what callback() returned
  callbackPromise, \* Promise.resolve(callbackResult), the act body's result
  scope,           \* the act() scope: "none", "open" or "closed" (onDone ran)
  unflushed,       \* work scheduled inside the scope and not performed yet
  actResult,       \* the thenable act() returned, as a promise
  returnedPromise, \* the promise actPromise returned
  awaited,         \* what the caller's await on returnedPromise delivered
  actPc,           \* position of the act in flight
  settings,        \* the settings state the reducer is applied to
  now,             \* Date.now()
  last,            \* history: the last dispatch (action, state before, time)
  recognized,      \* history: an action of a recognized type was dispatched
  stepStatus,      \* e2e job: each step "pending", "success", "failure", "skipped"
  current,         \* e2e job: the next step the runner looks at
  jobStatus,       \* e2e job: the status the steps' conditions are read against
  conclusion,      \* e2e job: the reported result, "none" while it runs
  inspectorContentHeight,     \* useInspector().state.inspectorContentHeight
  PANEL_COLLAPSED_THRESHOLD,  \* imported from ../panel: any positive value
  isResizable,     \* Title prop: the drag handle is rendered
  canCollapse,     \* Title prop: the Toggle button is rendered
  resizeable,      \* panel context state
  isCollapsed,     \* panel context state
  height,          \* panel context state
  expandToHeight,  \* panel context state, written through setExpandToHeight
  event,           \* history: the last event the title handled
  before           \* history: the panel state when that event arrived

stubVars == <<implementation, props, setRefresher, pendingHooks, inst, batching,
              nextHook, runs, promise, returned, resolved, pass, enqPass,
              firstExec>>

createVars == <<componentStubs, nStubs, container, element, depth, op>>

actVars == <<callback, callbackResult, callbackPromise, scope, unflushed,
             actResult, returnedPromise, awaited, actPc>>

reducerVars == <<settings, now, last, recognized>>

jobVars == <<stepStatus, current, jobStatus, conclusion>>

titleVars == <<inspectorContentHeight, PANEL_COLLAPSED_THRESHOLD, isResizable,
               canCollapse, resizeable, isCollapsed, height, expandToHeight,
               event, before>>

vars == <<stubVars, createVars, actVars, reducerVars, jobVars, titleVars>>

otherThanStub == <<createVars, actVars, reducerVars, jobVars, titleVars>>
otherThanCreate == <<stubVars, actVars, reducerVars, jobVars, titleVars>>
otherThanAct == <<stubVars, createVars, reducerVars, jobVars, titleVars>>
otherThanReducer == <<stubVars, createVars, actVars, jobVars, titleVars>>
otherThanJob == <<stubVars, createVars, actVars, reducerVars, titleVars>>
otherThanTitle == <<stubVars, createVars, actVars, reducerVars, jobVars>>

(* ------------------------------------------------------ ComponentStub *)

NoExec == [pass |-> 0, inst |-> 0, refresher |-> 0, ret |-> NoValue]
NoPromise == [state |-> "none", value |-> NoValue]
PendingPromise == [state |-> "pending", value |-> NoValue]

NewInst == [status |-> "new", refresher |-> 0, queued |-> 0, hooks |-> <<>>,
            Impl |-> "none", props |-> NULL, rendered |-> "none"]

\* The part of the state a render reads and writes, as one record.
Cur == [implementation |-> implementation, props |-> props,
        setRefresher |-> setRefresher, pendingHooks |-> pendingHooks,
        inst |-> inst, runs |-> runs, promise |-> promise,
        resolved |-> resolved, pass |-> pass, firstExec |-> firstExec]

Set(st) ==
  /\ implementation' = st.implementation
  /\ props' = st.props
  /\ setRefresher' = st.setRefresher
  /\ pendingHooks' = st.pendingHooks
  /\ inst' = st.inst
  /\ runs' = st.runs
  /\ promise' = st.promise
  /\ resolved' = st.resolved
  /\ pass' = st.pass
  /\ firstExec' = st.firstExec

\* What a hook procedure returns: it reads the render scope it is called in.
HookResult(h, p) == <<h, p>>

\* Mutant of Resolver: a later call settles the promise again.
Resolver_Overwrite(pr, result) == [state |-> "resolved", value |-> result]

\* resolver(result): settles a pending promise, a no-op on a settled one.
Resolver(pr, result) ==
  IF pr.state = "pending" THEN [state |-> "resolved", value |-> result] ELSE pr

\* The closure _pushPendingHook pushes: result = func(); resolver(result).
HookClosure(st, h, i, refresher) ==
  LET result == HookResult(h, st.props)
      first == st.promise[h].state = "pending"
  IN [st EXCEPT
        !.runs[h] = @ + 1,
        !.promise[h] = Resolver(@, result),
        !.resolved = IF first THEN Append(@, h) ELSE @,
        !.firstExec[h] = IF st.runs[h] = 0
                         THEN [pass |-> st.pass, inst |-> i,
                               refresher |-> refresher, ret |-> result]
                         ELSE @]

\* Mutant of HookExecutor: the hooks are called last to first.
RECURSIVE HookExecutor_Reversed(_, _, _, _)
HookExecutor_Reversed(st, hooks, i, refresher) ==
  IF hooks = <<>> THEN st
  ELSE HookExecutor_Reversed(
         HookClosure(st, hooks[Len(hooks)], i, refresher),
         SubSeq(hooks, 1, Len(hooks) - 1), i, refresher)

\* HookExecutor: hooks.forEach((func) => func()), in array order.
RECURSIVE HookExecutor(_, _, _, _)
HookExecutor(st, hooks, i, refresher) ==
  IF hooks = <<>> THEN st
  ELSE HookExecutor(HookClosure(st, Head(hooks), i, refresher), Tail(hooks),
                    i, refresher)

\* Mutant of HooksMemo: only the oldest pending hook is taken.
HooksMemo_TakesOne(recompute, me, pending) ==
  IF recompute
    THEN (IF pending = <<>> THEN <<>> ELSE <<Head(pending)>>)
    ELSE me.hooks

\* useMemo(() => { slice(0); length = 0 }, [refresher]): the drained queue.
HooksMemo(recompute, me, pending) == IF recompute THEN pending ELSE me.hooks
\* Mutant of PendingAfterMemo: pendingHooks.length = 0 is left out.
PendingAfterMemo_Keep(recompute, pending) == pending

PendingAfterMemo(recompute, pending) == IF recompute THEN <<>> ELSE pending

\* useMemo(() => this._implementation ? MockImpl : Component, [refresher]).
ImplMemo(recompute, me, impl) ==
  IF recompute THEN (IF impl # NULL THEN "MockImpl" ELSE "Component")
  ELSE me.Impl

\* What <Impl .../> renders: MockImpl calls this._implementation when rendered.
RenderImpl(Impl, impl) == IF Impl = "MockImpl" THEN impl ELSE "Component"

\* One render of Wrapper instance i with props p, its HookExecutor and Impl.
\* Mutant of Wrapper: the props are captured on the first render only.
Wrapper_PropsOnMountOnly(st, i, p) ==
  LET me == st.inst[i]
      mounting == me.status = "new"
      refresher == IF mounting THEN 0 ELSE me.refresher + me.queued
      recompute == mounting \/ refresher # me.refresher
      hooks == HooksMemo(recompute, me, st.pendingHooks)
      Impl == ImplMemo(recompute, me, st.implementation)
      s1 == [st EXCEPT !.props = IF mounting THEN p ELSE @,
                       !.setRefresher = i,
                       !.pendingHooks = PendingAfterMemo(recompute, @),
                       !.pass = @ + 1]
      s2 == HookExecutor(s1, hooks, i, refresher)
  IN [s2 EXCEPT !.inst[i] =
        [status |-> "mounted", refresher |-> refresher, queued |-> 0,
         hooks |-> hooks, Impl |-> Impl, props |-> p,
         rendered |-> RenderImpl(Impl, st.implementation)]]

Wrapper(st, i, p) ==
  LET me == st.inst[i]
      mounting == me.status = "new"
      refresher == IF mounting THEN 0 ELSE me.refresher + me.queued
      recompute == mounting \/ refresher # me.refresher
      hooks == HooksMemo(recompute, me, st.pendingHooks)
      Impl == ImplMemo(recompute, me, st.implementation)
      s1 == [st EXCEPT !.props = p,
                       !.setRefresher = i,
                       !.pendingHooks = PendingAfterMemo(recompute, @),
                       !.pass = @ + 1]
      s2 == HookExecutor(s1, hooks, i, refresher)
  IN [s2 EXCEPT !.inst[i] =
        [status |-> "mounted", refresher |-> refresher, queued |-> 0,
         hooks |-> hooks, Impl |-> Impl, props |-> p,
         rendered |-> RenderImpl(Impl, st.implementation)]]

\* setRefresher((v) => v + 1): queues an update on a mounted instance only.
Refresh(st) ==
  IF st.setRefresher # UNDEFINED /\ st.inst[st.setRefresher].status = "mounted"
  THEN [st EXCEPT !.inst[st.setRefresher].queued = @ + 1]
  ELSE st

\* Leaving the outermost batchedUpdates scope renders the queued updates.
FlushSync(st) ==
  IF \E i \in Insts : st.inst[i].status = "mounted" /\ st.inst[i].queued > 0
  THEN LET i == CHOOSE j \in Insts :
                  st.inst[j].status = "mounted" /\ st.inst[j].queued > 0
       IN Wrapper(st, i, st.inst[i].props)
  ELSE st

\* this._refresh: act(() => setRefresher && setRefresher(v => v + 1)).
RefreshAct(st, inBatch) == IF inBatch THEN Refresh(st) ELSE FlushSync(Refresh(st))

(* ------------------------------------------------- ComponentStub: actions *)

StubInit ==
  /\ implementation = NULL
  /\ props = NULL
  /\ setRefresher = UNDEFINED
  /\ pendingHooks = <<>>
  /\ inst = [i \in Insts |-> NewInst]
  /\ batching = FALSE
  /\ nextHook = 1
  /\ runs = [h \in Hooks |-> 0]
  /\ promise = [h \in Hooks |-> NoPromise]
  /\ returned = [h \in Hooks |-> NoPromise]
  /\ resolved = <<>>
  /\ pass = 0
  /\ enqPass = [h \in Hooks |-> 0]
  /\ firstExec = [h \in Hooks |-> NoExec]

\* React mounts a new instance of the stub's Wrapper (instances mount in order).
Mount(i, p) ==
  /\ ~batching
  /\ pass < MaxPass
  /\ inst[i].status = "new"
  /\ \A j \in Insts : j < i => inst[j].status # "new"
  /\ Set(Wrapper(Cur, i, p))
  /\ UNCHANGED <<batching, nextHook, returned, enqPass>>
  /\ UNCHANGED otherThanStub

\* A parent re-render or a props change renders a mounted instance again.
Rerender(i, p) ==
  /\ ~batching
  /\ pass < MaxPass
  /\ inst[i].status = "mounted"
  /\ Set(Wrapper(Cur, i, p))
  /\ UNCHANGED <<batching, nextHook, returned, enqPass>>
  /\ UNCHANGED otherThanStub

\* React unmounts an instance; the stub keeps its setRefresher.
Unmount(i) ==
  /\ ~batching
  /\ inst[i].status = "mounted"
  /\ inst' = [inst EXCEPT ![i].status = "unmounted"]
  /\ UNCHANGED <<implementation, props, setRefresher, pendingHooks, batching,
                 nextHook, runs, promise, returned, resolved, pass, enqPass,
                 firstExec>>
  /\ UNCHANGED otherThanStub

\* The test enters a synchronous batchedUpdates scope (an outer act callback).
BeginBatch ==
  /\ ~batching
  /\ batching' = TRUE
  /\ UNCHANGED <<implementation, props, setRefresher, pendingHooks, inst,
                 nextHook, runs, promise, returned, resolved, pass, enqPass,
                 firstExec>>
  /\ UNCHANGED otherThanStub

\* The scope is left: React renders the updates queued inside it.
EndBatch ==
  /\ batching
  /\ batching' = FALSE
  /\ Set(FlushSync(Cur))
  /\ UNCHANGED <<nextHook, returned, enqPass>>
  /\ UNCHANGED otherThanStub

\* this._pushPendingHook(func): push the closure, then this._refresh().
PushPendingHook(st, h, inBatch) ==
  RefreshAct([st EXCEPT !.pendingHooks = Append(@, h),
                        !.promise[h] = PendingPromise], inBatch)

\* stub.renderHook(func) / fixture.renderHook(func) on the layout stub.
RenderHook ==
  /\ nextHook <= MaxHooks
  /\ pass < MaxPass
  /\ Set(PushPendingHook(Cur, nextHook, batching))
  /\ returned' = [returned EXCEPT ![nextHook] = PendingPromise]
  /\ enqPass' = [enqPass EXCEPT ![nextHook] = pass]
  /\ nextHook' = nextHook + 1
  /\ UNCHANGED batching
  /\ UNCHANGED otherThanStub

\* A render of instance i in which a procedure of the executing batch calls
\* stub.renderHook: forEach walks the array the memo copied, the new closure
\* goes to pendingHooks, and the update _refresh queues from inside the render
\* is rendered right after the commit.
RenderEnqueueing(i, p) ==
  /\ ~batching
  /\ pass + 1 < MaxPass
  /\ nextHook <= MaxHooks
  /\ \/ inst[i].status = "mounted"
     \/ inst[i].status = "new" /\ \A j \in Insts : j < i => inst[j].status # "new"
  /\ LET s1 == Wrapper(Cur, i, p)
     IN /\ s1.inst[i].hooks # <<>>
        /\ Set(FlushSync(PushPendingHook(s1, nextHook, TRUE)))
  /\ returned' = [returned EXCEPT ![nextHook] = PendingPromise]
  /\ enqPass' = [enqPass EXCEPT ![nextHook] = pass + 1]
  /\ nextHook' = nextHook + 1
  /\ UNCHANGED batching
  /\ UNCHANGED otherThanStub

\* fixture.act around _pushPendingHook: the returned promise adopts the hook's
\* promise once the act boundary has settled.
ActSettle(h) ==
  /\ ~batching
  /\ returned[h].state = "pending"
  /\ promise[h].state = "resolved"
  /\ returned' = [returned EXCEPT ![h] = promise[h]]
  /\ UNCHANGED <<implementation, props, setRefresher, pendingHooks, inst,
                 batching, nextHook, runs, promise, resolved, pass, enqPass,
                 firstExec>>
  /\ UNCHANGED otherThanStub

\* stub.mockImplementation(f) / callFake(f).
SetImplementation(st, f, inBatch) ==
  RefreshAct([st EXCEPT !.implementation = f], inBatch)

\* Each fake is installed at most once, fake1 before fake2.
MockImplementation(f) ==
  /\ pass < MaxPass
  /\ implementation = NULL \/ (implementation = "fake1" /\ f = "fake2")
  /\ Set(SetImplementation(Cur, f, batching))
  /\ UNCHANGED <<batching, nextHook, returned, enqPass>>
  /\ UNCHANGED otherThanStub


(* ------------------------------------------- ComponentStub: the claims *)

InQueue(h) == \E k \in DOMAIN pendingHooks : pendingHooks[k] = h
PosIn(seq, x) == CHOOSE k \in DOMAIN seq : seq[k] = x
Enqueued(h) == promise[h].state # "none"

\* This step rendered Wrapper instance i.
RenderedStep(i) == pass' > pass /\ setRefresher' = i
\* This step rendered instance i and recomputed its memos (mount or refresh).
Recomputed(i) ==
  /\ RenderedStep(i)
  /\ inst[i].status = "new" \/ inst'[i].refresher # inst[i].refresher

C1_Step(h) ==
  LET fi == firstExec[h].inst
      queuedNow == InQueue(h) \/ (~Enqueued(h) /\ Enqueued(h)')
  IN /\ runs'[h] \in {runs[h], runs[h] + 1}
     /\ (runs[h] = 0 /\ runs'[h] = 1) =>
           /\ \E i \in Insts : Recomputed(i)
           /\ promise'[h].state = "resolved"
     /\ (queuedNow /\ \E i \in Insts : Recomputed(i)) => runs'[h] = 1
     /\ (runs[h] >= 1 /\ runs'[h] = runs[h] + 1) =>
           /\ RenderedStep(fi)
           /\ inst[fi].status = "mounted"
           /\ inst[fi].refresher = firstExec[h].refresher
           /\ inst'[fi].refresher = firstExec[h].refresher
     /\ promise[h].state = "resolved" => promise'[h] = promise[h]

C2_FifoInOnePass ==
  \A h1, h2 \in Hooks :
    (h1 < h2 /\ Enqueued(h2) /\ enqPass[h1] = enqPass[h2]) =>
      /\ runs[h1] >= 1 <=> runs[h2] >= 1
      /\ runs[h2] >= 1 =>
            /\ firstExec[h1].pass = firstExec[h2].pass
            /\ PosIn(resolved, h1) < PosIn(resolved, h2)

\* C2 witness: two hooks enqueued without a render between them have run.
C2_Witness ==
  \E h1, h2 \in Hooks :
    /\ h1 < h2 /\ Enqueued(h2) /\ enqPass[h1] = enqPass[h2]
    /\ promise[h1].state = "resolved" /\ promise[h2].state = "resolved"

AnyMounted == \E i \in Insts : inst[i].status = "mounted"

\* C5 as stated, in the states where a wrapper instance is mounted: an
\* enqueued hook that has not run yet always has a render of a mounted
\* wrapper instance scheduled (so that it will run).
C5_EnqueueSchedulesRender ==
  \A h \in Hooks :
    (InQueue(h) /\ AnyMounted) =>
      \E i \in Insts : inst[i].status = "mounted" /\ inst[i].queued > 0

\* C6: a resolved hook promise, and the promise renderHook returned, hold the
\* value the hook's own procedure returned when it was first called in a
\* render, and neither is resolved before that call.
C6_ResolvesWithOwnResult ==
  \A h \in Hooks :
    /\ promise[h].state = "resolved" =>
          /\ runs[h] >= 1
          /\ promise[h].value = firstExec[h].ret
          /\ promise[h].value[1] = h
    /\ returned[h].state = "resolved" =>
          /\ runs[h] >= 1
          /\ returned[h].value = firstExec[h].ret
          /\ returned[h].value[1] = h
    /\ runs[h] = 0 => promise[h].state # "resolved"

\* C6 witness: renderHook's promise is resolved and the procedure has since
\* been called again under other props.
C6_Witness ==
  \E h \in Hooks :
    /\ returned[h].state = "resolved"
    /\ runs[h] >= 2
    /\ props # firstExec[h].ret[2]

\* C8 as stated: once a fake is set, every render of every wrapper instance
\* renders the fake, and setting it while a wrapper instance is mounted
\* forces a refresh (a render in the call, or an update queued in a batch).
C8_EveryRenderUsesFake ==
  [][/\ \A i \in Insts :
          (RenderedStep(i) /\ implementation' # NULL) =>
            inst'[i].rendered = implementation'
     /\ (implementation' # implementation /\ AnyMounted) =>
          \/ pass' > pass
          \/ \E i \in Insts : inst'[i].queued > inst[i].queued]_vars

\* This step rendered an instance with its memos recomputed: the queue was
\* drained.
DrainStep == \E i \in Insts : Recomputed(i)

\* C19: a render that drains the queue takes every hook pending at that
\* moment and leaves the queue empty; hooks are first called in enqueue
\* order, batch after batch, never a hook of a later batch before one of an
\* earlier batch; and a hook is first called in a pass later than the one
\* during or after which it was enqueued.
C19_Step ==
  /\ DrainStep =>
       /\ pendingHooks' = <<>>
       /\ \A h \in Hooks : InQueue(h) => runs'[h] >= 1
  /\ \A h1, h2 \in Hooks :
       (h1 < h2 /\ runs'[h2] >= 1) =>
         /\ runs'[h1] >= 1
         /\ firstExec'[h1].pass <= firstExec'[h2].pass
         /\ PosIn(resolved', h1) < PosIn(resolved', h2)
  /\ \A h \in Hooks : runs'[h] >= 1 => firstExec'[h].pass > enqPass'[h]

RenderedLast == setRefresher

\* C16: the stub's props are null until its Wrapper has rendered; a step in
\* which the Wrapper renders leaves them equal to the props of the instance
\* that rendered last; a step without a render, and a renderHook or
\* mockImplementation call even when it re-renders, leaves them as they were.
C16_PropsOfLastRender ==
  /\ props = NULL
  /\ [][/\ (pass' = pass => props' = props)
        /\ (pass' > pass => props' = inst'[RenderedLast'].props)
        /\ (RenderHook \/ \E f \in Impls : MockImplementation(f))
              => props' = props]_vars

C16_Witness ==
  /\ pass = MaxPass
  /\ inst[1].status = "mounted"
  /\ inst[2].status = "mounted"
  /\ RenderedLast = 1
  /\ inst[1].props = "propsB"
  /\ inst[2].props = "propsA"
  /\ props = "propsB"

(* --------------------------------- Fixture: React.createElement fake *)

Components == {"App", "APIProvider", "WorkspaceLayout"}
\* The components tests stub; the stub of APIProvider is the fixture's own.
StubTargets == {"App", "WorkspaceLayout"}
Matchers == {"none", "isA", "throws"}
Vals == {"a", "b"}

\* The props of an element: the _wrapped marker and what a matcher inspects.
\* Application code never passes _wrapped itself; only a stub's Wrapper does.
NullProps == [wrapped |-> "absent", val |-> "null"]
ElementProps == [wrapped : {"absent"}, val : Vals] \cup {NullProps}

\* props?._wrapped
IsWrapped(P) == P.wrapped = "true"

ComponentType(c) == [kind |-> "Component", comp |-> c, stub |-> 0]
WrapperType(s) == [kind |-> "Wrapper", comp |-> s.component, stub |-> s.id]
MockImplType(s) == [kind |-> "MockImpl", comp |-> s.component, stub |-> s.id]

\* new ComponentStub(fixture, component, matcher)
ComponentStub(id, c, matcher) ==
  [id |-> id, component |-> c, matcher |-> matcher, implementation |-> NULL]

\* The matcher functions of the model: what stub._matcher(props) yields.
Matcher(m, P) ==
  CASE m = "isA" -> IF P.val = "a" THEN "true" ELSE "false"
    [] m = "throws" -> "throw"

\* Mutant of MatcherResult: a stub without a matcher matches nothing.
MatcherResult_AbsentIsFalse(stub, P) ==
  IF stub.matcher = "none" THEN "false" ELSE Matcher(stub.matcher, P)

\* The callback of stubs.find: no matcher matches, else the matcher decides.
MatcherResult(stub, P) ==
  IF stub.matcher = "none" THEN "true" ELSE Matcher(stub.matcher, P)

\* Mutant of Find: the last matching stub wins (0: none).
Find_Last(stubs, P, k) ==
  LET hits == {j \in DOMAIN stubs : j >= k /\ MatcherResult(stubs[j], P) = "true"}
  IN IF \E j \in DOMAIN stubs : j >= k /\ MatcherResult(stubs[j], P) = "throw"
     THEN -1
     ELSE IF hits = {} THEN 0
     ELSE CHOOSE j \in hits : \A i \in hits : i <= j

\* Mutant of Find: a throwing matcher is caught and counts as no match.
RECURSIVE Find_CatchesThrow(_, _, _)
Find_CatchesThrow(stubs, P, k) ==
  IF k > Len(stubs) THEN 0
  ELSE LET r == MatcherResult(stubs[k], P)
       IN IF r = "true" THEN k
          ELSE Find_CatchesThrow(stubs, P, k + 1)

\* stubs.find(...) from index k on: the index of the first stub whose callback
\* is true, 0 when there is none, -1 when a matcher threw before a match.
RECURSIVE Find(_, _, _)
Find(stubs, P, k) ==
  IF k > Len(stubs) THEN 0
  ELSE LET r == MatcherResult(stubs[k], P)
       IN IF r = "throw" THEN -1
          ELSE IF r = "true" THEN k
          ELSE Find(stubs, P, k + 1)

\* this._componentStubs.get(type): only stubbed components are keys of the map.
GetStubs(map, type) == IF type.kind = "Component" THEN map[type.comp] ELSE <<>>

Created(type, P) == [status |-> "created", type |-> type, props |-> P]
Threw(type, P) == [status |-> "threw", type |-> type, props |-> P]
NoElement == [status |-> "none", type |-> ComponentType("App"), props |-> NullProps]

\* The fake of React.createElement installed by the Fixture constructor.
FakeCreateElement(map, type, P) ==
  LET stubs == GetStubs(map, type)
  IN IF ~IsWrapped(P) /\ stubs # <<>>
     THEN LET match == Find(stubs, P, 1)
          IN IF match = -1 THEN Threw(type, P)
             ELSE IF match > 0 THEN Created(WrapperType(stubs[match]), P)
             ELSE Created(type, P)
     ELSE Created(type, P)

\* Mutant of InnerProps: the Wrapper forgets the _wrapped marker.
InnerProps_NoMarker(P) == P

\* <Impl _wrapped={true} ref={ref} {...props} />: the spread props come last.
InnerProps(P) ==
  [P EXCEPT !.wrapped = IF P.wrapped = "absent" THEN "true" ELSE P.wrapped]

StubById(map, id) ==
  LET c == CHOOSE d \in Components : \E k \in DOMAIN map[d] : map[d][k].id = id
      k == CHOOSE j \in DOMAIN map[c] : map[c][j].id = id
  IN map[c][k]

\* The Impl a Wrapper selects: MockImpl when an implementation is set.
ImplType(s) ==
  IF s.implementation # NULL THEN MockImplType(s) ELSE ComponentType(s.component)

Substituted(r) == r.status = "created" /\ r.type.kind = "Wrapper"

\* The constructor stubs APIProvider with a fake and WorkspaceLayout plainly.
CreateInit ==
  /\ componentStubs =
       [c \in Components |->
          CASE c = "APIProvider" ->
                 <<[ComponentStub(1, c, "none") EXCEPT !.implementation = "fake1"]>>
            [] c = "WorkspaceLayout" -> <<ComponentStub(2, c, "none")>>
            [] OTHER -> <<>>]
  /\ nStubs = 2
  /\ container = NULL
  /\ element = NoElement
  /\ depth = 0
  /\ op = "new"

\* fixture.stubComponent(component, matcher)
StubComponent(c, m) ==
  /\ nStubs < MaxStubs
  /\ componentStubs' =
       [componentStubs EXCEPT ![c] = Append(@, ComponentStub(nStubs + 1, c, m))]
  /\ nStubs' = nStubs + 1
  /\ UNCHANGED <<container, element, depth, op>>
  /\ UNCHANGED otherThanCreate

\* stub.callFake(implementation) on the k-th stub of component c.
CallFake(c, k) ==
  /\ k \in DOMAIN componentStubs[c]
  /\ componentStubs[c][k].implementation = NULL
  /\ componentStubs' = [componentStubs EXCEPT ![c][k].implementation = "fake1"]
  /\ UNCHANGED <<nStubs, container, element, depth, op>>
  /\ UNCHANGED otherThanCreate

\* The application (or a test) instantiates component c with props P.
CreateElement(c, P) ==
  LET r == FakeCreateElement(componentStubs, ComponentType(c), P)
  IN /\ element' = r
     /\ depth' = IF Substituted(r) THEN 1 ELSE 0
     /\ op' = "create"
     /\ UNCHANGED <<componentStubs, nStubs, container>>
     /\ UNCHANGED otherThanCreate

\* fixture.render(): <App config/> is created through the fake; the container
\* is only set when that did not throw.
FixtureRender(P) ==
  LET r == FakeCreateElement(componentStubs, ComponentType("App"), P)
  IN /\ container = NULL
     /\ element' = r
     /\ depth' = IF Substituted(r) THEN 1 ELSE 0
     /\ container' = IF r.status = "created" THEN "container" ELSE NULL
     /\ op' = "render"
     /\ UNCHANGED <<componentStubs, nStubs>>
     /\ UNCHANGED otherThanCreate

\* React renders the Wrapper element: it creates its inner <Impl/> element.
RenderWrapper ==
  /\ Substituted(element)
  /\ LET s == StubById(componentStubs, element.type.stub)
         r == FakeCreateElement(componentStubs, ImplType(s),
                                InnerProps(element.props))
     IN /\ element' = r
        /\ depth' = IF Substituted(r) THEN depth + 1 ELSE depth
  /\ op' = "inner"
  /\ UNCHANGED <<componentStubs, nStubs, container>>
  /\ UNCHANGED otherThanCreate

(* ----------------------------------- React.createElement: the claims *)

\* This step is a createElement call by the application or by render().
CreationStep ==
  /\ op' \in {"create", "render"}
  /\ componentStubs' = componentStubs
  /\ element'.status = "created"

\* The rules of the created element's component that accept props P.
Accepting(stubs, P) ==
  {k \in DOMAIN stubs :
     stubs[k].matcher = "none" \/ Matcher(stubs[k].matcher, P) = "true"}

\* C3: an element created for a component with unmarked props gets the
\* wrapper of the first registered rule whose matcher is absent or true, and
\* the original type when the component has no rule or none matches.
C3_FirstMatchInRegistrationOrder ==
  [][(CreationStep /\ ~IsWrapped(element'.props)) =>
       LET c == element'.type.comp
           stubs == componentStubs[c]
           ok == Accepting(stubs, element'.props)
       IN IF ok = {}
          THEN element'.type = ComponentType(c)
          ELSE LET first == CHOOSE k \in ok : \A j \in ok : k <= j
               IN element'.type = WrapperType(stubs[first])]_vars

\* C3 witness: the second rule of a component was selected, the first one
\* having rejected the props.
C3_Witness ==
  /\ op = "create"
  /\ Substituted(element)
  /\ LET stubs == componentStubs[element.type.comp]
     IN /\ Len(stubs) >= 2
        /\ element.type.stub = stubs[2].id
        /\ stubs[1].matcher = "isA"
        /\ element.props.val = "b"

\* A component with exactly two rules, one with predicate isA and one
\* unconditional: the index of each (0 when the rules are not such a pair).
PredicatedOf(stubs) ==
  IF Len(stubs) = 2 /\ {stubs[1].matcher, stubs[2].matcher} = {"isA", "none"}
  THEN CHOOSE k \in 1..2 : stubs[k].matcher = "isA"
  ELSE 0

\* C4 as stated: whichever of the two rules was registered first, props
\* satisfying the predicate get the predicated rule's wrapper and other props
\* get the unconditional rule's wrapper.
C4_PredicatedThenDefault ==
  [][CreationStep =>
       LET stubs == componentStubs[element'.type.comp]
           pk == PredicatedOf(stubs)
       IN pk # 0 =>
            IF Matcher("isA", element'.props) = "true"
            THEN element'.type = WrapperType(stubs[pk])
            ELSE element'.type = WrapperType(stubs[3 - pk])]_vars

\* C4 amended: that holds when the predicated rule was registered first;
\* when the unconditional rule was registered first, its wrapper is used for
\* all props.
C4_PredicatedFirstElseDefault ==
  [][CreationStep =>
       LET stubs == componentStubs[element'.type.comp]
           pk == PredicatedOf(stubs)
       IN /\ pk = 1 =>
               IF Matcher("isA", element'.props) = "true"
               THEN element'.type = WrapperType(stubs[1])
               ELSE element'.type = WrapperType(stubs[2])
          /\ pk = 2 => element'.type = WrapperType(stubs[1])]_vars

\* C4 witness: with the predicated rule registered before the unconditional
\* one, props satisfying the predicate got the predicated rule's wrapper.
C4_Witness ==
  /\ op = "create"
  /\ Substituted(element)
  /\ LET stubs == componentStubs[element.type.comp]
     IN /\ PredicatedOf(stubs) = 1
        /\ element.props.val = "a"
        /\ element.type = WrapperType(stubs[1])

\* C9: the inner element a Wrapper creates is marked _wrapped and is never
\* substituted again, so an instantiation is substituted at most once.
C9_SubstitutedAtMostOnce ==
  /\ depth <= 1
  /\ op = "inner" =>
       /\ element.status = "created"
       /\ element.type.kind # "Wrapper"
       /\ IsWrapped(element.props)

\* C9 witness: a Wrapper rendered the original component, which has an
\* unconditional stub registered, and the element was not intercepted again.
C9_Witness ==
  /\ op = "inner"
  /\ depth = 1
  /\ element.type.kind = "Component"
  /\ \E k \in DOMAIN componentStubs[element.type.comp] :
       componentStubs[element.type.comp][k].matcher = "none"

\* This step is a createElement call by the application or by render(),
\* whether or not it produced an element.
CallStep ==
  /\ op' \in {"create", "render"}
  /\ componentStubs' = componentStubs

\* The rules whose matcher throws for props P.
Throwing(stubs, P) ==
  {k \in DOMAIN stubs :
     stubs[k].matcher # "none" /\ Matcher(stubs[k].matcher, P) = "throw"}

\* C18: when a rule whose matcher throws comes before every rule that accepts
\* the props, the createElement call throws: no element, substituted or
\* original, is produced, whatever rules are registered after the throwing
\* one, and render() does not set the container; otherwise an element is
\* produced.
C18_MatcherThrowPropagates ==
  [][CallStep =>
       LET stubs == componentStubs[element'.type.comp]
           P == element'.props
           ok == Accepting(stubs, P)
           throwsFirst == \E k \in Throwing(stubs, P) : \A j \in ok : k < j
       IN IF ~IsWrapped(P) /\ throwsFirst
          THEN /\ element'.status = "threw"
               /\ element'.type.kind = "Component"
               /\ op' = "render" => container' = NULL
          ELSE element'.status = "created"]_vars

\* C18 witness: the first rule's matcher threw and the unconditional rule
\* registered after it was not consulted.
C18_Witness ==
  /\ op = "create"
  /\ element.status = "threw"
  /\ LET stubs == componentStubs[element.type.comp]
     IN /\ Len(stubs) = 2
        /\ stubs[1].matcher = "throws"
        /\ stubs[2].matcher = "none"

\* The rules of the registry: for each component its stubs' identities and
\* matchers, in registration order.
Rules(map) ==
  [c \in DOMAIN map |->
     [k \in DOMAIN map[c] |-> <<map[c][k].id, map[c][k].matcher>>]]

\* C20 as stated: once render() has been called no step adds a rule to the
\* registry or changes what a createElement call selects for any component
\* and props.
C20_RegistryFrozenAfterRender ==
  [][container # NULL =>
       /\ Rules(componentStubs') = Rules(componentStubs)
       /\ \A c \in Components, P \in ElementProps :
            FakeCreateElement(componentStubs', ComponentType(c), P).type
              = FakeCreateElement(componentStubs, ComponentType(c), P).type]_vars

(* ------------------------------------------------------------ actPromise *)

Results == {"r1", "r2"}
Errors == {"e1", "e2"}
CallbackKinds == {"sync", "async", "throws"}

NoCallback == [kind |-> "none", value |-> "none", work |-> 0]
Unset == [state |-> "none", value |-> "none"]
Pending == [state |-> "pending", value |-> "none"]
Resolved(v) == [state |-> "resolved", value |-> v]
Rejected(e) == [state |-> "rejected", value |-> e]

\* Promise.resolve(x): a promise is returned as it is, a plain value wrapped.
PromiseResolve(cb) ==
  IF cb.kind = "async" THEN Pending ELSE Resolved(cb.value)

\* What `callbackResult = callback()` leaves in the local variable.
CallbackReturn(cb) ==
  IF cb.kind = "async" THEN "promise" ELSE cb.value

\* A promise resolved with x: it follows x when x is the callback's promise.
Adopt(x, p) == IF x = "promise" THEN p ELSE Resolved(x)

\* new Promise((aResolve, aReject) => actResult.then(aResolve, aReject))
\*   .then(() => callbackResult)
\* Mutant of ThenCallbackResult: a rejected act() is not passed on.
ThenCallbackResult_Swallow(act, x, p) ==
  Adopt(x, p)

ThenCallbackResult(act, x, p) ==
  IF act.state = "rejected" THEN act ELSE Adopt(x, p)

\* act()'s handler on the body's promise: flush before resolving.
AfterBody(p) ==
  IF p.state = "rejected"
    THEN [pc |-> "settled", scope |-> "closed", act |-> p]
    ELSE [pc |-> "flushing", scope |-> "open", act |-> Pending]

ActInit ==
  /\ callback = NoCallback
  /\ callbackResult = "undefined"
  /\ callbackPromise = Unset
  /\ scope = "none"
  /\ unflushed = 0
  /\ actResult = Unset
  /\ returnedPromise = Unset
  /\ awaited = Unset
  /\ actPc = "idle"

\* actPromise(callback), up to its return: the executor runs act(), whose body
\* runs the callback inside batchedUpdates.  A callback that throws makes act()
\* close its scope and rethrow, which rejects the promise under construction.
\* The test calls it first, or again once the previous await has continued.
ActPromise(kind, v, n) ==
  /\ actPc = "idle" \/ (actPc = "done" /\ awaited # Unset)
  /\ callback' = [kind |-> kind, value |-> v, work |-> n]
  /\ awaited' = Unset
  /\ IF kind = "throws"
       THEN /\ callbackResult' = "undefined"
            /\ callbackPromise' = Unset
            /\ scope' = "closed"
            /\ unflushed' = 0
            /\ actResult' = Unset
            /\ returnedPromise' = Rejected(v)
            /\ actPc' = "done"
       ELSE /\ callbackResult' = CallbackReturn(callback')
            /\ callbackPromise' = PromiseResolve(callback')
            /\ scope' = "open"
            /\ unflushed' = n
            /\ actResult' = Pending
            /\ returnedPromise' = Pending
            /\ actPc' = "body"
  /\ UNCHANGED otherThanAct

\* The asynchronous callback goes on and schedules more work.
CallbackUpdate ==
  /\ actPc = "body"
  /\ callbackPromise.state = "pending"
  /\ unflushed < MaxWork
  /\ unflushed' = unflushed + 1
  /\ UNCHANGED <<callback, callbackResult, callbackPromise, scope, actResult,
                 returnedPromise, awaited, actPc>>
  /\ UNCHANGED otherThanAct

\* The asynchronous callback's promise settles.
CallbackSettle(ok, v) ==
  /\ actPc = "body"
  /\ callbackPromise.state = "pending"
  /\ callbackPromise' = IF ok THEN Resolved(v) ELSE Rejected(v)
  /\ callback' = [callback EXCEPT !.value = v]
  /\ UNCHANGED <<callbackResult, scope, unflushed, actResult, returnedPromise,
                 awaited, actPc>>
  /\ UNCHANGED otherThanAct

\* act()'s then-handler on the settled body promise.
ActBodyThen ==
  /\ actPc = "body"
  /\ callbackPromise.state \in {"resolved", "rejected"}
  /\ LET a == AfterBody(callbackPromise) IN
       /\ actPc' = a.pc
       /\ scope' = a.scope
       /\ actResult' = a.act
  /\ UNCHANGED <<callback, callbackResult, callbackPromise, unflushed,
                 returnedPromise, awaited>>
  /\ UNCHANGED otherThanAct

\* flushWorkAndMicroTasks: perform the scheduled work, which may schedule
\* more or throw; when a pass finds nothing to do the scope closes.
FlushWork(more, err) ==
  /\ actPc = "flushing"
  /\ IF unflushed = 0
       THEN /\ more = 0 /\ err = "none"
            /\ unflushed' = 0
            /\ scope' = "closed"
            /\ actResult' = Resolved("undefined")
            /\ actPc' = "settled"
       ELSE IF err # "none"   \* the work throws part way
         THEN /\ more = 0
              /\ unflushed' = unflushed - 1
              /\ scope' = "closed"
              /\ actResult' = Rejected(err)
              /\ actPc' = "settled"
         ELSE /\ more < unflushed
              /\ unflushed' = more
              /\ UNCHANGED <<scope, actResult, actPc>>
  /\ UNCHANGED <<callback, callbackResult, callbackPromise, returnedPromise,
                 awaited>>
  /\ UNCHANGED otherThanAct

\* The chained promise settles and the returned promise follows it.
ActResultThen ==
  /\ actPc = "settled"
  /\ returnedPromise' =
       ThenCallbackResult(actResult, callbackResult, callbackPromise)
  /\ actPc' = "done"
  /\ UNCHANGED <<callback, callbackResult, callbackPromise, scope, unflushed,
                 actResult, awaited>>
  /\ UNCHANGED otherThanAct

\* The caller's `await fixture.act(...)` continues.
Await ==
  /\ actPc = "done"
  /\ awaited = Unset
  /\ awaited' = returnedPromise
  /\ UNCHANGED <<callback, callbackResult, callbackPromise, scope, unflushed,
                 actResult, returnedPromise, actPc>>
  /\ UNCHANGED otherThanAct

(* ---------------------------------------------------- actPromise: claims *)

BoundarySettled == scope = "closed" /\ actResult.state = "resolved"

\* C7: the promise Fixture.act returns is pending when the call returns, for a
\* synchronous and for a promise-returning callback alike; it resolves only
\* once the act() scope has closed with all work scheduled inside it
\* performed, and then with the callback's result; a rejected act() rejects
\* it with the same error; the caller's await delivers nothing earlier.
C7_ResolvesAfterBoundaryWithResult ==
  /\ (actPc \in {"body", "flushing", "settled"}
        => returnedPromise = Pending /\ awaited = Unset)
  /\ (returnedPromise.state = "resolved"
        => /\ BoundarySettled
           /\ unflushed = 0
           /\ callback.kind \in {"sync", "async"}
           /\ returnedPromise.value = callback.value)
  /\ (actPc = "done" /\ actResult.state = "rejected"
        => returnedPromise = actResult)
  /\ (awaited # Unset => actPc = "done" /\ awaited = returnedPromise)

C7_Witness ==
  /\ awaited.state = "resolved"
  /\ callback.kind = "async"
  /\ callback.work > 0
  /\ awaited.value = "r2"

(* ------------------------------------------------------- settingsReducer *)

FETCH_SETTINGS_SUCCESS == "fetch_settings_success"
FETCH_SETTINGS_FAILURE == "fetch_settings_failure"
UPDATE_SETTINGS_SUCCESS == "update_settings_success"
UPDATE_SETTINGS_FAILURE == "update_settings_failure"
FailureTypes == {FETCH_SETTINGS_FAILURE, UPDATE_SETTINGS_FAILURE}
SuccessTypes == {FETCH_SETTINGS_SUCCESS, UPDATE_SETTINGS_SUCCESS}
ACTION_TYPES == FailureTypes \cup SuccessTypes

Messages == {[body |-> "not valid JSON", title |-> "Unable to find settings data"],
             [body |-> "not valid JSON", title |-> "Unable to update settings data"]}
Codes == {"my_error_code", "other_code"}
AnalyticsIds == {"fakeId12345", "fakeId12345NEW"}

EmptyError == [k \in {} |-> "none"]
initialState == [error |-> EmptyError, googleAnalyticsId |-> NULL]

FailurePayloads == [message : Messages, code : Codes]
SuccessPayloads == [googleAnalyticsId : AnalyticsIds]
Actions ==
  [type : FailureTypes \cup {"unknown"}, payload : FailurePayloads]
    \cup [type : SuccessTypes \cup {"unknown"}, payload : SuccessPayloads]

\* Mutant of settingsReducer: a failure starts over from initialState.
settingsReducer_FromInitial(state, action, time) ==
  IF action.type \in FailureTypes
    THEN [initialState EXCEPT !.error = [message |-> action.payload.message,
                                         id |-> time,
                                         code |-> action.payload.code]]
  ELSE IF action.type \in SuccessTypes
    THEN [state EXCEPT !.googleAnalyticsId = action.payload.googleAnalyticsId]
  ELSE state

\* Mutant of settingsReducer: a success only fills an empty googleAnalyticsId.
settingsReducer_KeepsFirstId(state, action, time) ==
  IF action.type \in FailureTypes
    THEN [state EXCEPT !.error = [message |-> action.payload.message,
                                  id |-> time,
                                  code |-> action.payload.code]]
  ELSE IF action.type \in SuccessTypes
    THEN IF state.googleAnalyticsId = NULL
           THEN [state EXCEPT
                   !.googleAnalyticsId = action.payload.googleAnalyticsId]
           ELSE state
  ELSE state

\* Mutant of settingsReducer: a success resets the error.
settingsReducer_ClearsError(state, action, time) ==
  IF action.type \in FailureTypes
    THEN [state EXCEPT !.error = [message |-> action.payload.message,
                                  id |-> time,
                                  code |-> action.payload.code]]
  ELSE IF action.type \in SuccessTypes
    THEN [error |-> EmptyError,
          googleAnalyticsId |-> action.payload.googleAnalyticsId]
  ELSE state

\* Mutant of settingsReducer: an unrecognized type is treated as a reset.
settingsReducer_DefaultResets(state, action, time) ==
  IF action.type \in FailureTypes
    THEN [state EXCEPT !.error = [message |-> action.payload.message,
                                  id |-> time,
                                  code |-> action.payload.code]]
  ELSE IF action.type \in SuccessTypes
    THEN [state EXCEPT !.googleAnalyticsId = action.payload.googleAnalyticsId]
  ELSE initialState

\* Mutant of settingsReducer: a success stamps the error with the time.
settingsReducer_StampsSuccess(state, action, time) ==
  IF action.type \in FailureTypes
    THEN [state EXCEPT !.error = [message |-> action.payload.message,
                                  id |-> time,
                                  code |-> action.payload.code]]
  ELSE IF action.type \in SuccessTypes
    THEN [error |-> [id |-> time],
          googleAnalyticsId |-> action.payload.googleAnalyticsId]
  ELSE state

settingsReducer(state, action, time) ==
  IF action.type \in FailureTypes
    THEN [state EXCEPT !.error = [message |-> action.payload.message,
                                  id |-> time,
                                  code |-> action.payload.code]]
  ELSE IF action.type \in SuccessTypes
    THEN [state EXCEPT !.googleAnalyticsId = action.payload.googleAnalyticsId]
  ELSE state

NoDispatch == [type |-> "none", at |-> 0]

ReducerInit ==
  /\ settings = initialState
  /\ now = 1
  /\ last = [action |-> NoDispatch, before |-> initialState, at |-> 0]
  /\ recognized = FALSE

Dispatch(action) ==
  /\ settings' = settingsReducer(settings, action, now)
  /\ last' = [action |-> action, before |-> settings, at |-> now]
  /\ recognized' = (recognized \/ action.type \in ACTION_TYPES)
  /\ UNCHANGED now
  /\ UNCHANGED otherThanReducer

\* Time passes between dispatches.
Tick ==
  /\ now < MaxNow
  /\ now' = now + 1
  /\ UNCHANGED <<settings, last, recognized>>
  /\ UNCHANGED otherThanReducer

(* ----------------------------------------------- settingsReducer: claims *)

\* C10: after a FETCH_SETTINGS_FAILURE or UPDATE_SETTINGS_FAILURE action with
\* payload {message, code}, applied to any state, the error is exactly
\* {message, code, id: the time of the dispatch} and googleAnalyticsId is
\* what it was before.
C10_FailureSetsErrorOnly ==
  last.action.type \in FailureTypes
    => /\ settings.error = [message |-> last.action.payload.message,
                            code |-> last.action.payload.code,
                            id |-> last.at]
       /\ settings.googleAnalyticsId = last.before.googleAnalyticsId

C10_Witness ==
  /\ last.action.type = UPDATE_SETTINGS_FAILURE
  /\ last.before.googleAnalyticsId = "fakeId12345NEW"
  /\ last.before.error # EmptyError
  /\ last.before.error.id < last.at
  /\ settings.error.id = last.at

\* C11: after a FETCH_SETTINGS_SUCCESS or UPDATE_SETTINGS_SUCCESS action whose
\* payload carries googleAnalyticsId, applied to any state, the state's
\* googleAnalyticsId is exactly the payload's value.
C11_SuccessReplacesId ==
  last.action.type \in SuccessTypes
    => settings.googleAnalyticsId = last.action.payload.googleAnalyticsId

C11_Witness ==
  /\ last.action.type = UPDATE_SETTINGS_SUCCESS
  /\ last.before.googleAnalyticsId = "fakeId12345"
  /\ settings.googleAnalyticsId = "fakeId12345NEW"

SuccessStep ==
  /\ last'.action.type \in SuccessTypes
  /\ last'.before = settings
  /\ settings' = settingsReducer(settings, last'.action, now)

C15_UnknownKeepsState ==
  /\ (last.action.type \notin ACTION_TYPES \cup {"none"}
        => settings = last.before)
  /\ (~recognized => settings = initialState)

C15_Witness ==
  /\ recognized
  /\ last.action.type = "unknown"
  /\ last.before.error # EmptyError
  /\ last.before.googleAnalyticsId # NULL
  /\ settings = last.before

SuccessActions == [type : SuccessTypes, payload : SuccessPayloads]

\* C17: applying the same success action to the state a second time, at any
\* later time, gives the state the first application gave.
C17_SuccessIdempotent ==
  \A a \in SuccessActions, t \in now..MaxNow :
    LET once == settingsReducer(settings, a, now)
    IN  settingsReducer(once, a, t) = once

C17_Witness ==
  /\ last.action.type \in SuccessTypes
  /\ last.before = settings
  /\ settings.error # EmptyError
  /\ last.at > settings.error.id

(* ---------------------------------------------------------- e2e workflow *)

\* Mutant of Steps: the environment is stopped before the tests are run.
Steps_TeardownBeforeTests == <<
  [name |-> "Checkout", cond |-> "success"],
  [name |-> "Install libgbm1", cond |-> "success"],
  [name |-> "Read .nvmrc", cond |-> "success"],
  [name |-> "Setup Node", cond |-> "success"],
  [name |-> "Setup npm cache", cond |-> "success"],
  [name |-> "Setup PHP", cond |-> "success"],
  [name |-> "Get Composer cache directory", cond |-> "success"],
  [name |-> "Setup Composer cache", cond |-> "success"],
  [name |-> "Install dependencies", cond |-> "success"],
  [name |-> "Build plugin", cond |-> "success"],
  [name |-> "Start Docker environment", cond |-> "success"],
  [name |-> "Stop Docker environment", cond |-> "always"],
  [name |-> "Run E2E tests", cond |-> "success"] >>

\* jobs.e2e.steps, in order; cond is the step's `if:` ("success" when absent).
Steps == <<
  [name |-> "Checkout", cond |-> "success"],
  [name |-> "Install libgbm1", cond |-> "success"],
  [name |-> "Read .nvmrc", cond |-> "success"],
  [name |-> "Setup Node", cond |-> "success"],
  [name |-> "Setup npm cache", cond |-> "success"],
  [name |-> "Setup PHP", cond |-> "success"],
  [name |-> "Get Composer cache directory", cond |-> "success"],
  [name |-> "Setup Composer cache", cond |-> "success"],
  [name |-> "Install dependencies", cond |-> "success"],
  [name |-> "Build plugin", cond |-> "success"],
  [name |-> "Start Docker environment", cond |-> "success"],
  [name |-> "Run E2E tests", cond |-> "success"],
  [name |-> "Stop Docker environment", cond |-> "always"] >>

StepIds == 1..Len(Steps)
StepOf(n) == CHOOSE i \in StepIds : Steps[i].name = n
Outcomes == {"success", "failure"}

\* Mutant of Condition: `if: always()` is read like the default.
Condition_AlwaysAsDefault(step, status) ==
  status = "success"

\* The step's `if:` against the job's status so far: always() is true
\* whatever happened, the implicit success() only while no step has failed.
Condition(step, status) ==
  IF step.cond = "always" THEN TRUE ELSE status = "success"

\* Mutant of StatusAfter: a failed step does not fail the job.
StatusAfter_ContinueOnError(status, outcome) ==
  status

\* The job's status after a step ended: a failure sticks.
StatusAfter(status, outcome) ==
  IF outcome = "failure" THEN "failure" ELSE status

JobInit ==
  /\ stepStatus = [i \in StepIds |-> "pending"]
  /\ current = 1
  /\ jobStatus = "success"
  /\ conclusion = "none"

\* The runner takes the next step whose condition holds and runs it.
RunStep(outcome) ==
  /\ current \in StepIds
  /\ Condition(Steps[current], jobStatus)
  /\ stepStatus' = [stepStatus EXCEPT ![current] = outcome]
  /\ jobStatus' = StatusAfter(jobStatus, outcome)
  /\ current' = current + 1
  /\ UNCHANGED conclusion
  /\ UNCHANGED otherThanJob

\* The runner skips the next step: its condition does not hold.
SkipStep ==
  /\ current \in StepIds
  /\ ~Condition(Steps[current], jobStatus)
  /\ stepStatus' = [stepStatus EXCEPT ![current] = "skipped"]
  /\ current' = current + 1
  /\ UNCHANGED <<jobStatus, conclusion>>
  /\ UNCHANGED otherThanJob

\* All steps are behind: the job reports its result.
CompleteJob ==
  /\ current = Len(Steps) + 1
  /\ conclusion = "none"
  /\ conclusion' = jobStatus
  /\ UNCHANGED <<stepStatus, current, jobStatus>>
  /\ UNCHANGED otherThanJob

(* -------------------------------------------------- e2e workflow: claims *)

Ran(i) == stepStatus[i] \in Outcomes
Teardown == StepOf("Stop Docker environment")
E2E == StepOf("Run E2E tests")
SomeStepFailed == \E i \in StepIds : stepStatus[i] = "failure"

\* C13: a run of the e2e job never ends without the 'Stop Docker
\* environment' step having been run, whichever earlier step failed; the
\* step is never skipped.
C13_TeardownAlwaysRun ==
  /\ (conclusion # "none" => Ran(Teardown))
  /\ stepStatus[Teardown] # "skipped"
  /\ (current > Teardown => Ran(Teardown))

C13_Witness ==
  /\ conclusion = "failure"
  /\ stepStatus[StepOf("Install dependencies")] = "failure"
  /\ stepStatus[StepOf("Start Docker environment")] = "skipped"
  /\ Ran(Teardown)

\* C14: once a step has failed no later step is run except 'Stop Docker
\* environment', and the job ends failing; 'Run E2E tests' is run only when
\* every step before it has succeeded.
C14_FailureStopsJob ==
  /\ \A i, j \in StepIds :
       (i < j /\ stepStatus[i] = "failure" /\ j # Teardown) => ~Ran(j)
  /\ (conclusion # "none" /\ SomeStepFailed => conclusion = "failure")
  /\ (Ran(E2E) => \A i \in 1..(E2E - 1) : stepStatus[i] = "success")

C14_Witness ==
  /\ conclusion = "failure"
  /\ stepStatus[StepOf("Build plugin")] = "failure"
  /\ stepStatus[E2E] = "skipped"
  /\ stepStatus[Teardown] = "success"

MainSteps == <<StepOf("Install dependencies"), StepOf("Build plugin"),
               StepOf("Start Docker environment"), E2E, Teardown>>
Finished(i) == stepStatus[i] # "pending"

\* C21: the steps are taken in the order of the list, each one only when
\* every step before it has finished (run or skipped), so dependency install,
\* build, environment start, test run and environment stop follow each other
\* in that order; the test run is run only after the environment start has
\* succeeded, and the environment stop only after the test run has finished
\* or been skipped.
C21_StepsInListOrder ==
  /\ \A i, j \in StepIds : (i < j /\ Finished(j)) => Finished(i)
  /\ \A k \in 1..(Len(MainSteps) - 1) :
       /\ MainSteps[k] < MainSteps[k + 1]
       /\ Finished(MainSteps[k + 1]) => Finished(MainSteps[k])
  /\ (Ran(E2E) => stepStatus[StepOf("Start Docker environment")] = "success")
  /\ (Ran(Teardown) => stepStatus[E2E] \in Outcomes \cup {"skipped"})

C21_Witness ==
  /\ conclusion = "success"
  /\ \A k \in 1..Len(MainSteps) : stepStatus[MainSteps[k]] = "success"

(* ------------------------------------------------------------ panel Title *)

InspectorHeights == {0, 3, 10}
Thresholds == 1..MaxThreshold
Deltas == (0 - MaxDelta)..MaxDelta

Max(a, b) == IF a >= b THEN a ELSE b
Min(a, b) == IF a <= b THEN a ELSE b

\* Math.round(inspectorContentHeight * 0.7), for a height that is not negative.
MaxPanelHeight(h) == (7 * h + 5) \div 10
maxHeight == MaxPanelHeight(inspectorContentHeight)

\* Mutant of NewHeight: the lower limit is left out.
NewHeight_NoFloor(value, deltaHeight, limit) ==
  Min(limit, value + deltaHeight)

\* The updater handleHeightChange hands to setHeight.
NewHeight(value, deltaHeight, limit) ==
  Max(0, Min(limit, value + deltaHeight))

\* Mutant of RecordsExpandTo: the threshold is not looked at.
RecordsExpandTo_AnyHeight(r, h, threshold) == r

\* The condition of handleExpandToHeightChange.
RecordsExpandTo(r, h, threshold) == r /\ h >= threshold

\* Mutant of ToggleOnClick: the click goes on to the enclosing elements.
ToggleOnClick_Propagates == [stop |-> FALSE, calls |-> 1]

\* Toggle's onClick: evt.stopPropagation(); toggle().
ToggleOnClick == [stop |-> TRUE, calls |-> 1]

\* HeaderButton's onClick={toggle}.
HeaderButtonOnClick == [stop |-> FALSE, calls |-> 1]

\* The click handlers from the clicked element up to the header.
ClickPath(target) ==
  IF target = "Toggle" THEN <<ToggleOnClick, HeaderButtonOnClick>>
  ELSE <<HeaderButtonOnClick>>

\* How often a click that bubbles along the path calls toggle.
RECURSIVE ToggleCalls(_)
ToggleCalls(path) ==
  IF path = <<>> THEN 0
  ELSE Head(path).calls
         + (IF Head(path).stop THEN 0 ELSE ToggleCalls(Tail(path)))

\* toggle = isCollapsed ? expand : collapse, of the render the click hit,
\* called n times.
AfterToggle(collapsed, n) == IF n = 0 THEN collapsed ELSE ~collapsed

NoEvent == [kind |-> "none", delta |-> 0, calls |-> 0]

\* No panel title is rendered yet.
TitleInit ==
  /\ inspectorContentHeight = 0
  /\ PANEL_COLLAPSED_THRESHOLD = 1
  /\ isResizable = FALSE
  /\ resizeable = FALSE
  /\ canCollapse = FALSE
  /\ isCollapsed = FALSE
  /\ height = 0
  /\ expandToHeight = 0
  /\ event = NoEvent
  /\ before = [height |-> 0, isCollapsed |-> FALSE, expandToHeight |-> 0]

Rendered == event.kind # "none"

Snapshot == [height |-> height, isCollapsed |-> isCollapsed,
             expandToHeight |-> expandToHeight]

\* A panel renders its Title: the props, the panel context's state and the
\* inspector's height are what the panel and the inspector hold.
RenderTitle(ih, threshold, rz, cc, r, collapsed, h) ==
  /\ ~Rendered
  /\ h \in 0..MaxPanelHeight(ih)
  /\ inspectorContentHeight' = ih
  /\ PANEL_COLLAPSED_THRESHOLD' = threshold
  /\ isResizable' = rz
  /\ canCollapse' = cc
  /\ resizeable' = r
  /\ isCollapsed' = collapsed
  /\ height' = h
  /\ expandToHeight' = h
  /\ event' = [kind |-> "render", delta |-> 0, calls |-> 0]
  /\ before' = [height |-> h, isCollapsed |-> collapsed, expandToHeight |-> h]
  /\ UNCHANGED otherThanTitle

\* The drag handle reports a height change of deltaHeight.
HandleHeightChange(deltaHeight) ==
  /\ Rendered
  /\ isResizable
  /\ height' = IF resizeable
                 THEN NewHeight(height, deltaHeight, maxHeight)
                 ELSE height
  /\ event' = [kind |-> "height", delta |-> deltaHeight, calls |-> 0]
  /\ before' = Snapshot
  /\ UNCHANGED <<inspectorContentHeight, PANEL_COLLAPSED_THRESHOLD,
                 isResizable, resizeable, canCollapse, isCollapsed,
                 expandToHeight>>
  /\ UNCHANGED otherThanTitle

\* The drag handle reports the end of a drag.
HandleExpandToHeightChange ==
  /\ Rendered
  /\ isResizable
  /\ expandToHeight' =
       IF RecordsExpandTo(resizeable, height, PANEL_COLLAPSED_THRESHOLD)
         THEN height
         ELSE expandToHeight
  /\ event' = [kind |-> "expandTo", delta |-> 0, calls |-> 0]
  /\ before' = Snapshot
  /\ UNCHANGED <<inspectorContentHeight, PANEL_COLLAPSED_THRESHOLD,
                 isResizable, resizeable, canCollapse, isCollapsed, height>>
  /\ UNCHANGED otherThanTitle

\* A click on the Toggle button or on the header around it.
Click(target) ==
  /\ Rendered
  /\ target = "Toggle" => canCollapse
  /\ LET n == ToggleCalls(ClickPath(target))
     IN /\ isCollapsed' = AfterToggle(isCollapsed, n)
        /\ event' = [kind |-> target, delta |-> 0, calls |-> n]
  /\ before' = Snapshot
  /\ UNCHANGED <<inspectorContentHeight, PANEL_COLLAPSED_THRESHOLD,
                 isResizable, resizeable, canCollapse, height, expandToHeight>>
  /\ UNCHANGED otherThanTitle

(* ---------------------------------------------------- panel Title: claims *)

\* C22: on a resizeable panel a height change by delta sets the height to
\* max(0, min(maxHeight, height + delta)), and the height, which starts within
\* 0..maxHeight, stays within 0..maxHeight.
C22_HeightClamped ==
  /\ height \in 0..maxHeight
  /\ (event.kind = "height" /\ resizeable) =>
       height = Max(0, Min(maxHeight, before.height + event.delta))

C22_Witness ==
  /\ event.kind = "height"
  /\ resizeable
  /\ before.height + event.delta < 0
  /\ before.height > 0
  /\ height = 0

\* C23: a click on the Toggle button calls the toggle action once, the
\* header's handler does not fire, and the panel is flipped: collapsed to
\* expanded or expanded to collapsed.
C23_ToggleClickTogglesOnce ==
  event.kind = "Toggle" =>
    /\ event.calls = 1
    /\ isCollapsed = ~before.isCollapsed

C23_Witness ==
  /\ event.kind = "Toggle"
  /\ before.isCollapsed
  /\ ~isCollapsed
  /\ event.calls = 1

\* C24: the handler at the end of a drag sets the expand-to height only on a
\* resizeable panel whose height is at least PANEL_COLLAPSED_THRESHOLD, and
\* then to that height; otherwise the expand-to height is left as it was.
C24_ExpandToRecordedAboveThreshold ==
  event.kind = "expandTo" =>
    IF resizeable /\ before.height >= PANEL_COLLAPSED_THRESHOLD
      THEN expandToHeight = before.height
      ELSE expandToHeight = before.expandToHeight

C24_Witness ==
  /\ event.kind = "expandTo"
  /\ resizeable
  /\ before.height >= PANEL_COLLAPSED_THRESHOLD
  /\ before.expandToHeight < PANEL_COLLAPSED_THRESHOLD
  /\ expandToHeight = before.height

Init ==
  StubInit /\ CreateInit /\ ActInit /\ ReducerInit /\ JobInit /\ TitleInit

Next ==
  \/ \E i \in Insts, p \in PropsSet : Mount(i, p)
  \/ \E i \in Insts, p \in PropsSet : Rerender(i, p)
  \/ \E i \in Insts : Unmount(i)
  \/ BeginBatch
  \/ EndBatch
  \/ RenderHook
  \/ \E h \in Hooks : ActSettle(h)
  \/ \E f \in Impls : MockImplementation(f)

Spec == Init /\ [][Next]_vars

\* The stub with hook procedures that enqueue further hooks while they run.
NextDrain ==
  \/ \E i \in Insts, p \in PropsSet : Mount(i, p)
  \/ \E i \in Insts, p \in PropsSet : Rerender(i, p)
  \/ \E i \in Insts, p \in PropsSet : RenderEnqueueing(i, p)
  \/ \E i \in Insts : Unmount(i)
  \/ BeginBatch
  \/ EndBatch
  \/ RenderHook

SpecDrain == Init /\ [][NextDrain]_vars

NextCreate ==
  \/ \E c \in StubTargets, m \in Matchers : StubComponent(c, m)
  \/ \E c \in StubTargets, k \in 1..MaxStubs : CallFake(c, k)
  \/ \E c \in Components, P \in ElementProps : CreateElement(c, P)
  \/ \E P \in ElementProps : FixtureRender(P)
  \/ RenderWrapper

SpecCreate == Init /\ [][NextCreate]_vars

NextActPromise ==
  \/ \E k \in CallbackKinds, v \in Results \cup Errors \cup {"none"}, n \in 0..MaxWork :
       /\ v \in (CASE k = "throws" -> Errors
                   [] k = "sync" -> Results
                   [] OTHER -> {"none"})
       /\ ActPromise(k, v, n)
  \/ CallbackUpdate
  \/ \E ok \in BOOLEAN, v \in Results \cup Errors :
       /\ ok = (v \in Results)
       /\ CallbackSettle(ok, v)
  \/ ActBodyThen
  \/ \E more \in 0..MaxWork, err \in Errors \cup {"none"} : FlushWork(more, err)
  \/ ActResultThen
  \/ Await

SpecAct == Init /\ [][NextActPromise]_vars

NextReducer ==
  \/ \E action \in Actions : Dispatch(action)
  \/ Tick

SpecReducer == Init /\ [][NextReducer]_vars

NextJob ==
  \/ \E outcome \in Outcomes : RunStep(outcome)
  \/ SkipStep
  \/ CompleteJob

SpecJob == Init /\ [][NextJob]_vars

NextTitle ==
  \/ \E ih \in InspectorHeights, threshold \in Thresholds,
        rz \in BOOLEAN, cc \in BOOLEAN, r \in BOOLEAN, collapsed \in BOOLEAN :
       \E h \in 0..MaxPanelHeight(ih) :
         RenderTitle(ih, threshold, rz, cc, r, collapsed, h)
  \/ \E deltaHeight \in Deltas : HandleHeightChange(deltaHeight)
  \/ HandleExpandToHeightChange
  \/ \E target \in {"Toggle", "HeaderButton"} : Click(target)

SpecTitle == Init /\ [][NextTitle]_vars

====
